---- MODULE Spec2Model ----
(***************************************************************************)
(* Model of the Auto-Prompt application (src/App.tsx):                      *)
(*   - AuthGuard: the license guard (verifyKeyOnline, verifyKeyOffline,     *)
(*     checkExpiryNow, checkSavedKey, handleUnlock, handleLogout);          *)
(*   - the batched script generator (generateBatchWithRetry,                *)
(*     generateScript, mapJsonToScenes).                                    *)
(* JavaScript strings are modelled as sequences of UTF-16 code units, so    *)
(* that split, trim, toUpperCase, parseInt and the signature hash are       *)
(* computed as the code computes them.                                      *)
(***************************************************************************)
EXTENDS Integers, Sequences, FiniteSets, TLC

(***************************************************************************)
(* String helpers (JavaScript built-ins used by the guard).                 *)
(***************************************************************************)

\* "-" is code unit 45, " " is 32, "0".."9" are 48..57, "A".."F" are 65..70,
\* "a".."z" are 97..122.

\* String.prototype.split('-'): the segments between dashes; "" gives <<"">>.
split(s) ==
  LET dashes == {i \in 1..Len(s) : s[i] = 45}
      \* the position of the k-th dash; 0 before the first, Len(s) + 1 after the last
      dash(k) == IF k = 0 THEN 0
                 ELSE IF k > Cardinality(dashes) THEN Len(s) + 1
                 ELSE CHOOSE i \in dashes :
                        Cardinality({j \in dashes : j < i}) = k - 1
  IN [k \in 1..(Cardinality(dashes) + 1) |->
        SubSeq(s, dash(k - 1) + 1, dash(k) - 1)]

\* The code units that \s matches and that trim() strips: white space and
\* line terminators.
WhiteSpace ==
  {9, 10, 11, 12, 13, 32, 160, 5760, 8232, 8233, 8239, 8287, 12288, 65279}
    \cup (8192..8202)

\* String.prototype.trim(): leading and trailing white space removed.
trim(s) ==
  LET IsWs(c) == c \in WhiteSpace
      NonWs == {i \in 1..Len(s) : ~IsWs(s[i])}
      Min(S) == CHOOSE x \in S : \A y \in S : x <= y
      Max(S) == CHOOSE x \in S : \A y \in S : x >= y
  IN IF NonWs = {} THEN <<>> ELSE SubSeq(s, Min(NonWs), Max(NonWs))

\* String.prototype.toUpperCase() on ASCII text.
toUpperCase(s) ==
  [i \in 1..Len(s) |-> IF s[i] >= 97 /\ s[i] <= 122 THEN s[i] - 32 ELSE s[i]]

\* parseInt(s, 16): skips leading white space, an optional sign and an
\* optional 0x prefix, then reads the longest prefix of hexadecimal digits;
\* no digit gives NaN.  The result is [nan |-> TRUE] or [nan |-> FALSE, val].
parseInt16(s) ==
  LET IsWs(c) == c \in {9, 10, 11, 12, 13, 32}
      Digit(c) == IF c >= 48 /\ c <= 57 THEN c - 48
                  ELSE IF c >= 65 /\ c <= 70 THEN c - 55
                  ELSE IF c >= 97 /\ c <= 102 THEN c - 87
                  ELSE -1
      RECURSIVE skipWs(_)
      skipWs(i) == IF i <= Len(s) /\ IsWs(s[i]) THEN skipWs(i + 1) ELSE i
      a == skipWs(1)
      neg == a <= Len(s) /\ s[a] = 45
      b == IF a <= Len(s) /\ s[a] \in {43, 45} THEN a + 1 ELSE a
      c == IF b + 1 <= Len(s) /\ s[b] = 48 /\ s[b + 1] \in {88, 120}
           THEN b + 2 ELSE b
      RECURSIVE digits(_, _, _)
      digits(i, n, acc) ==
        IF i <= Len(s) /\ Digit(s[i]) >= 0
        THEN digits(i + 1, n + 1, acc * 16 + Digit(s[i]))
        ELSE [n |-> n, acc |-> acc]
      d == digits(c, 0, 0)
  IN IF d.n = 0 THEN [nan |-> TRUE, val |-> 0]
     ELSE [nan |-> FALSE, val |-> IF neg THEN 0 - d.acc ELSE d.acc]

\* a > b in JavaScript when b is a parseInt result: false when b is NaN.
GreaterThan(a, b) == ~b.nan /\ a > b.val

(***************************************************************************)
(* KeyCodec: the offline signature (verifyKeyOffline).                      *)
(***************************************************************************)

\* 'SECRET_KEY_BRIDGE_8823_HASH'
APP_SECRET ==
  <<83, 69, 67, 82, 69, 84, 95, 75, 69, 89, 95, 66, 82, 73, 68, 71, 69, 95,
    56, 56, 50, 51, 95, 72, 65, 83, 72>>

\* 'LIFETIME'
LIFETIME == <<76, 73, 70, 69, 84, 73, 77, 69>>

\* One round of simpleHash's loop: hash = ((hash << 5) - hash) + char, then
\* hash = hash & hash.  The 32-bit two's complement word is kept as two
\* 16-bit halves [hi, lo]; the round is 31 * hash + char modulo 2^32.
\* (Here and below an intermediate result is bound by "x \in {e}", which
\* evaluates e once however often x is used.)
hashStep(h, char) ==
  CHOOSE r \in { [hi |-> (w.hi * 31 + ((w.lo * 31 + c) \div 65536)) % 65536,
                  lo |-> (w.lo * 31 + c) % 65536] : w \in {h}, c \in {char} } :
    TRUE

\* The rounds for str[a..b] in order, starting from the word [hi, lo] (the
\* range is halved so that the evaluation stays shallow; the rounds and
\* their order are those of the loop).
RECURSIVE hashRounds(_, _, _, _, _)
hashRounds(str, a, b, hi, lo) ==
  IF hi < 0 \/ a > b THEN [hi |-> hi, lo |-> lo]
  ELSE IF a = b THEN hashStep([hi |-> hi, lo |-> lo], str[a])
  ELSE CHOOSE r \in
         UNION { { hashRounds(str, m + 1, b, left.hi, left.lo) :
                     left \in {hashRounds(str, a, m, hi, lo)} } :
                 m \in {(a + b) \div 2} } : TRUE

\* simpleHash's accumulator after the loop over str, from hash = 0.
hashWord(str) ==
  CHOOSE r \in {hashRounds(s, 1, Len(s), 0, 0) : s \in {str}} : TRUE

\* Math.abs of the signed 32-bit word, as an unsigned word (abs(-2^31) = 2^31).
absWord(h) ==
  IF h.hi < 32768 THEN h
  ELSE [hi |-> (65535 - h.hi + (IF h.lo = 0 THEN 1 ELSE 0)) % 65536,
        lo |-> (65536 - h.lo) % 65536]

\* Number.prototype.toString(16): lower-case digits, no leading zero.
toString16(h) ==
  LET HexChar(d) == IF d < 10 THEN 48 + d ELSE 87 + d
      RECURSIVE hex(_)
      hex(n) == IF n < 16 THEN <<HexChar(n)>>
                ELSE Append(hex(n \div 16), HexChar(n % 16))
      Pad4(n) == <<HexChar(n \div 4096), HexChar((n \div 256) % 16),
                   HexChar((n \div 16) % 16), HexChar(n % 16)>>
  IN IF h.hi = 0 THEN hex(h.lo) ELSE hex(h.hi) \o Pad4(h.lo)

\* simpleHash(str) = Math.abs(hash).toString(16).
simpleHash(str) ==
  CHOOSE r \in UNION { {toString16(a) : a \in {absWord(h)}} :
                         h \in {hashWord(str)} } : TRUE

\* expectedSig = simpleHash(expHex + '-' + typeCode + APP_SECRET).toUpperCase()
expectedSig(expHex, typeCode) ==
  CHOOSE r \in { toUpperCase(h) :
                   h \in {simpleHash(expHex \o <<45>> \o typeCode \o APP_SECRET)} } :
    TRUE

\* signatureMatches with the comparison made case-insensitive.
signatureMatches_ignoreCase(signature, expected) ==
  toUpperCase(signature) = toUpperCase(expected)

\* The comparison of the key's signature segment with the expected one.
signatureMatches(signature, expected) == signature = expected

\* offlineExpired with the comparison turned round.
offlineExpired_reversed(expHex, now) ==
  LET expiresAt == parseInt16(expHex) IN ~expiresAt.nan /\ now < expiresAt.val

\* The expiry test of verifyKeyOffline: Date.now() > parseInt(expHex, 16).
offlineExpired(expHex, now) == GreaterThan(now, parseInt16(expHex))

\* verifyKeyOffline(keyString) read at time now = Date.now().
verifyKeyOffline(keyString, now) ==
  CHOOSE res \in
    { IF Len(parts) # 4 \/ parts[1] # <<83, 75>>
      THEN [valid |-> FALSE, message |-> "Sai dinh dang."]
      ELSE IF ~signatureMatches(parts[4], expectedSig(parts[2], parts[3]))
      THEN [valid |-> FALSE, message |-> "Key khong hop le."]
      ELSE IF parts[2] # LIFETIME /\ offlineExpired(parts[2], now)
      THEN [valid |-> FALSE, message |-> "Key da het han."]
      ELSE [valid |-> TRUE, message |-> ""] : parts \in {split(keyString)} } :
    TRUE

(***************************************************************************)
(* State.                                                                   *)
(***************************************************************************)
VARIABLES
  \* KeyCodec exercised on its own: one key read at one time.
  kKey,     \* the keyString handed to verifyKeyOffline
  kNow,     \* Date.now()
  kpc,      \* "input": not verified yet, "verified": kRes is its result
  kRes,     \* the last result of verifyKeyOffline(kKey)
  kMut,     \* TRUE once a character of a validated key's signature was replaced
  \* AuthGuard.
  isUnlocked,  \* useState(false)
  isLoading,   \* useState(true)
  keyInput,    \* useState('')
  error,       \* useState('')
  slot,        \* localStorage 'my_app_license_online' (<<>>: no item)
  now,         \* Date.now()
  gpc,         \* where the guard's asynchronous handlers stand
  awaitKey,    \* the key handed to the verifyKeyOnline call in flight
  last,        \* history: what the last handler did
  \* generateScript (one call).
  spc,             \* where the call stands: the await it is suspended at
  promptCount,     \* options.promptCount
  targetCount,     \* let targetCount
  batch,           \* the loop index
  allRawScenes,    \* let allRawScenes
  storySummary,    \* let storySummary
  previousContext, \* let previousContext
  attempt,         \* generateBatchWithRetry's attempt
  caught,          \* the error its catch block holds (<<>>: none)
  waitTime,        \* the delay being awaited, in ms (0: none)
  progress,        \* the last onProgress message
  prompt,          \* contextInstructions of the generateBatch call in flight
  outcome,         \* the returned Script or the thrown error
  asked,           \* history: startIndex and count of each batch started
  hist,            \* history: flags over the responses and failures so far
  tally,           \* history: generateBatch calls and retry waits, when counted
  \* extendScript (one call).
  epc,             \* where the call stands
  eKey,            \* whether apiKey is a non-empty string
  eLast,           \* lastScene.scene_number
  eCount,          \* count
  eOut,            \* the returned scenes or the thrown error
  eHist,           \* history: requests made, what the response carried
  \* cleanForJson (applied once, then to its own result).
  cpc,             \* how many times it has been applied
  cText,           \* the argument
  cOut             \* the last result

keyVars == <<kKey, kNow, kpc, kRes, kMut>>
guardVars == <<isUnlocked, isLoading, keyInput, error, slot, now, gpc, awaitKey, last>>
genVars == <<spc, promptCount, targetCount, batch, allRawScenes, storySummary,
             previousContext, attempt, caught, waitTime, progress, prompt,
             outcome, asked, hist, tally>>
extVars == <<epc, eKey, eLast, eCount, eOut, eHist>>
cleanVars == <<cpc, cText, cOut>>
vars == <<keyVars, guardVars, genVars, extVars, cleanVars>>

\* What each part of the model leaves alone.
notGuard == <<keyVars, genVars, extVars, cleanVars>>
notKey == <<guardVars, genVars, extVars, cleanVars>>
notGen == <<keyVars, guardVars, extVars, cleanVars>>
notExt == <<keyVars, guardVars, genVars, cleanVars>>
notClean == <<keyVars, guardVars, genVars, extVars>>

\* The generator's variables before anything has run.
NoContext == [scene |-> 0, location |-> "", action |-> ""]

NoOutcome ==
  [kind |-> "none", story_summary |-> "", scenes |-> <<>>, batch |-> 0,
   error |-> <<>>]

\* No generateBatch call is in flight.
NoPrompt == [task |-> "none", summary |-> <<>>, context |-> <<>>]

NoHist ==
  [allExact |-> TRUE, anyFailure |-> FALSE, misreported |-> FALSE,
   coolDowns |-> 0, firstSummary |-> <<>>, lastEnding |-> <<>>]

\* The calls and waits are not counted.
NoTally == [on |-> FALSE, calls |-> 0, batchCalls |-> 0, batchWaits |-> 0]

\* generateScript is not part of the behaviour.
GenOff ==
  /\ spc = "off" /\ promptCount = 0 /\ targetCount = 0 /\ batch = 0
  /\ allRawScenes = <<>> /\ storySummary = "" /\ previousContext = NoContext
  /\ attempt = 0 /\ caught = <<>> /\ waitTime = 0 /\ progress = "none"
  /\ prompt = NoPrompt
  /\ outcome = NoOutcome /\ asked = <<>> /\ hist = NoHist /\ tally = NoTally

NoExtOutcome == [kind |-> "none", scenes |-> <<>>]

NoExtHist == [calls |-> 0, asked |-> 0, received |-> 0, misreported |-> FALSE]

\* extendScript is not part of the behaviour.
ExtOff ==
  /\ epc = "off" /\ eKey = FALSE /\ eLast = 0 /\ eCount = 0
  /\ eOut = NoExtOutcome /\ eHist = NoExtHist

NoText == [absent |-> TRUE, chars |-> <<>>]

\* cleanForJson is not part of the behaviour.
CleanOff == cpc = "off" /\ cText = NoText /\ cOut = <<>>

(***************************************************************************)
(* Inputs of the key checks.                                                *)
(***************************************************************************)

\* The largest value of Date.now() explored.
MaxNow == 3

\* 'SK-' + expHex + '-' + typeCode + '-' + signature, as the issuer signs it.
MakeKey(expHex, typeCode) ==
  <<83, 75, 45>> \o expHex \o <<45>> \o typeCode \o <<45>>
    \o expectedSig(expHex, typeCode)

\* Expiry fields: 'LIFETIME', '2', '03', 'ZZ' (no hexadecimal digit), '1G'.
ExpiryFields == {LIFETIME, <<50>>, <<48, 51>>, <<90, 90>>, <<49, 71>>}

\* Type codes: '01', 'A'.
TypeCodes == {<<48, 49>>, <<65>>}

\* Correctly signed keys.
SignedKeys == {MakeKey(e, t) : e \in ExpiryFields, t \in TypeCodes}

\* Keys that are not correctly signed or not well formed: a signature of
\* another expiry, a wrong prefix ('XK'), three segments ('SK-2-01'), five
\* segments, the empty string.
BadKeys ==
  { <<83, 75, 45>> \o LIFETIME \o <<45, 48, 49, 45>> \o expectedSig(<<50>>, <<48, 49>>),
    <<88, 75, 45, 50, 45, 48, 49, 45>> \o expectedSig(<<50>>, <<48, 49>>),
    <<83, 75, 45, 50, 45, 48, 49>>,
    MakeKey(<<50>>, <<48, 49>>) \o <<45, 48>>,
    <<>> }

\* Characters a signature character is replaced by: '0', '9', 'D', 'd', 'G', '-', ' '.
ReplacementChars == {48, 57, 68, 100, 71, 45, 32}

\* keyString with the i-th character of its signature segment replaced by c.
ReplaceSigChar(keyString, i, c) ==
  LET sigLen == Len(split(keyString)[4])
      at == Len(keyString) - sigLen + i
  IN [keyString EXCEPT ![at] = c]

NoResult == [valid |-> FALSE, message |-> ""]


(***************************************************************************)
(* AuthGuard: online verification.                                          *)
(***************************************************************************)

\* What the fetch of verifyKeyOnline can end in: the 8 s abort, a connection
\* failure, a non-2xx status, or a 2xx response whose body is not JSON, is
\* {valid: false} with or without a message, is {valid: true}, or is an
\* object without a valid field.
Transport ==
  {"timeout", "connfail", "http403", "http404", "http500",
   "ok_bad_json", "ok_valid_false_msg", "ok_valid_false", "ok_valid_true",
   "ok_no_valid"}

\* verifyKeyOnline with HTTP 404 handled like the other non-2xx statuses.
verifyKeyOnline_404asError(t) ==
  CASE t = "http403" ->
         [status |-> "INVALID",
          message |-> "Key khong ton tai, da bi xoa hoac het han."]
    [] t \in {"http404", "http500"} ->
         [status |-> "ERROR", message |-> "Loi Server"]
    [] t = "ok_valid_false_msg" ->
         [status |-> "INVALID", message |-> "server message"]
    [] t = "ok_valid_false" ->
         [status |-> "INVALID", message |-> "Key khong hop le"]
    [] t \in {"ok_valid_true", "ok_no_valid"} ->
         [status |-> "VALID", message |-> ""]
    [] OTHER -> [status |-> "NETWORK_ERROR", message |-> ""]

\* verifyKeyOnline: the status (and message) it resolves to.
verifyKeyOnline(t) ==
  CASE t \in {"http403", "http404"} ->
         [status |-> "INVALID",
          message |-> "Key khong ton tai, da bi xoa hoac het han."]
    [] t = "http500" -> [status |-> "ERROR", message |-> "Loi Server"]
    [] t = "ok_valid_false_msg" ->
         [status |-> "INVALID", message |-> "server message"]
    [] t = "ok_valid_false" ->
         [status |-> "INVALID", message |-> "Key khong hop le"]
    [] t \in {"ok_valid_true", "ok_no_valid"} ->
         [status |-> "VALID", message |-> ""]
    [] OTHER -> [status |-> "NETWORK_ERROR", message |-> ""]

(***************************************************************************)
(* AuthGuard: what the handlers decide once verifyKeyOnline has answered.   *)
(***************************************************************************)

OfflineLabel(res) == IF res.valid THEN "valid" ELSE "invalid"

\* checkSavedKeyOutcome without its INVALID branch: every answer but VALID
\* falls back to the offline check.
checkSavedKeyOutcome_fallbackOnInvalid(savedKey, onlineRes, t) ==
  IF onlineRes.status = "VALID"
  THEN [unlock |-> TRUE, remove |-> FALSE, offline |-> "notrun"]
  ELSE LET offlineRes == verifyKeyOffline(savedKey, t)
       IN [unlock |-> offlineRes.valid, remove |-> FALSE,
           offline |-> OfflineLabel(offlineRes)]

\* checkSavedKeyOutcome removing the item also when the answer is
\* indeterminate and the offline check fails.
checkSavedKeyOutcome_removeOnError(savedKey, onlineRes, t) ==
  IF onlineRes.status = "VALID"
  THEN [unlock |-> TRUE, remove |-> FALSE, offline |-> "notrun"]
  ELSE IF onlineRes.status = "INVALID"
  THEN [unlock |-> FALSE, remove |-> TRUE, offline |-> "notrun"]
  ELSE LET offlineRes == verifyKeyOffline(savedKey, t)
       IN [unlock |-> offlineRes.valid, remove |-> ~offlineRes.valid,
           offline |-> OfflineLabel(offlineRes)]

\* checkSavedKeyOutcome trusting the stored key whenever the answer is
\* neither VALID nor INVALID.
checkSavedKeyOutcome_trustOnError(savedKey, onlineRes, t) ==
  IF onlineRes.status = "VALID"
  THEN [unlock |-> TRUE, remove |-> FALSE, offline |-> "notrun"]
  ELSE IF onlineRes.status = "INVALID"
  THEN [unlock |-> FALSE, remove |-> TRUE, offline |-> "notrun"]
  ELSE [unlock |-> TRUE, remove |-> FALSE,
        offline |-> OfflineLabel(verifyKeyOffline(savedKey, t))]

\* checkSavedKey after the await: unlock on VALID, remove the item on INVALID,
\* otherwise unlock exactly when verifyKeyOffline(savedKey) is valid.
checkSavedKeyOutcome(savedKey, onlineRes, t) ==
  IF onlineRes.status = "VALID"
  THEN [unlock |-> TRUE, remove |-> FALSE, offline |-> "notrun"]
  ELSE IF onlineRes.status = "INVALID"
  THEN [unlock |-> FALSE, remove |-> TRUE, offline |-> "notrun"]
  ELSE LET offlineRes == verifyKeyOffline(savedKey, t)
       IN [unlock |-> offlineRes.valid, remove |-> FALSE,
           offline |-> OfflineLabel(offlineRes)]

\* handleUnlock's normalisation of the typed text.
inputClean(text) == toUpperCase(trim(text))

\* handleUnlockOutcome without its INVALID branch.
handleUnlockOutcome_fallbackOnInvalid(key, onlineRes, t) ==
  IF onlineRes.status = "VALID"
  THEN [unlock |-> TRUE, error |-> "", offline |-> "notrun"]
  ELSE LET offlineRes == verifyKeyOffline(key, t)
       IN [unlock |-> offlineRes.valid,
           error |-> IF offlineRes.valid THEN "" ELSE offlineRes.message,
           offline |-> OfflineLabel(offlineRes)]

\* handleUnlockOutcome without the offline fallback: only VALID unlocks.
handleUnlockOutcome_onlineOnly(key, onlineRes, t) ==
  IF onlineRes.status = "VALID"
  THEN [unlock |-> TRUE, error |-> "", offline |-> "notrun"]
  ELSE [unlock |-> FALSE,
        error |-> IF onlineRes.message = "" THEN "Loi Server"
                  ELSE onlineRes.message,
        offline |-> "notrun"]

\* handleUnlock after the await: persist and unlock on VALID, set the error
\* on INVALID, otherwise persist and unlock exactly when
\* verifyKeyOffline(inputClean) is valid, else set its message.
handleUnlockOutcome(key, onlineRes, t) ==
  IF onlineRes.status = "VALID"
  THEN [unlock |-> TRUE, error |-> "", offline |-> "notrun"]
  ELSE IF onlineRes.status = "INVALID"
  THEN [unlock |-> FALSE, error |-> onlineRes.message, offline |-> "notrun"]
  ELSE LET offlineRes == verifyKeyOffline(key, t)
       IN [unlock |-> offlineRes.valid,
           error |-> IF offlineRes.valid THEN "" ELSE offlineRes.message,
           offline |-> OfflineLabel(offlineRes)]

\* 'undefined': what parseInt reads when parts[1] does not exist.
Undefined == <<117, 110, 100, 101, 102, 105, 110, 101, 100>>

\* sweepExpired written as "not (expTimestamp >= Date.now())", without the
\* LIFETIME and isNaN tests: an expiry that does not parse counts as elapsed.
sweepExpired_nanExpires(key, t) ==
  LET parts == split(key)
      expHex == IF Len(parts) >= 2 THEN parts[2] ELSE Undefined
      expTimestamp == parseInt16(expHex)
  IN expTimestamp.nan \/ t > expTimestamp.val

\* sweepExpired with the comparison turned round.
sweepExpired_reversed(key, t) ==
  LET parts == split(key)
      expHex == IF Len(parts) >= 2 THEN parts[2] ELSE Undefined
      expTimestamp == parseInt16(expHex)
  IN /\ (Len(parts) < 2 \/ expHex # LIFETIME)
     /\ ~expTimestamp.nan
     /\ t < expTimestamp.val

\* checkExpiryNow's test on the stored key: expHex = key.split('-')[1] is not
\* 'LIFETIME', parses to a number, and Date.now() is greater than it.
sweepExpired(key, t) ==
  LET parts == split(key)
      expHex == IF Len(parts) >= 2 THEN parts[2] ELSE Undefined
      expTimestamp == parseInt16(expHex)
  IN /\ (Len(parts) < 2 \/ expHex # LIFETIME)
     /\ ~expTimestamp.nan
     /\ t > expTimestamp.val

(***************************************************************************)
(* AuthGuard: inputs.                                                       *)
(***************************************************************************)

\* Keys the guard meets: signed keys for 'LIFETIME', '2' and 'ZZ', a key for
\* '2' carrying the signature of 'LIFETIME', and 'ABC'.
GuardKeys ==
  { MakeKey(LIFETIME, <<48, 49>>), MakeKey(<<50>>, <<48, 49>>),
    MakeKey(<<90, 90>>, <<48, 49>>),
    <<83, 75, 45, 50, 45, 48, 49, 45>> \o expectedSig(LIFETIME, <<48, 49>>),
    <<65, 66, 67>> }

\* String.prototype.toLowerCase() on ASCII text (what a user may type).
toLowerCase(s) ==
  [i \in 1..Len(s) |-> IF s[i] >= 65 /\ s[i] <= 90 THEN s[i] + 32 ELSE s[i]]

\* What the user types into the key field: nothing, blanks only, the expiring
\* key as issued, the wrongly signed key as issued, and the expiring and the
\* LIFETIME key in lower case between blanks.
TypedInputs ==
  { <<>>, <<32, 32>>,
    MakeKey(<<50>>, <<48, 49>>),
    <<83, 75, 45, 50, 45, 48, 49, 45>> \o expectedSig(LIFETIME, <<48, 49>>),
    <<32>> \o toLowerCase(MakeKey(<<50>>, <<48, 49>>)) \o <<32, 32>>,
    <<32>> \o toLowerCase(MakeKey(LIFETIME, <<48, 49>>)) \o <<32, 32>> }

NoKey == <<>>

NoOp ==
  [op |-> "none", key |-> NoKey, input |-> <<>>, transport |-> "none",
   online |-> "none", call |-> "off", offline |-> "notrun", slotBefore |-> NoKey, errorBefore |-> "",
   alert |-> FALSE, at |-> 0]

\* The guard is not part of the behaviour.
GuardOff ==
  /\ isUnlocked = FALSE /\ isLoading = TRUE /\ keyInput = <<>> /\ error = ""
  /\ slot = NoKey /\ now = 0 /\ gpc = "off" /\ awaitKey = NoKey /\ last = NoOp

(***************************************************************************)
(* AuthGuard: the handlers.                                                 *)
(***************************************************************************)

\* The component mounts: useState's initial values; the stored item is what
\* an earlier session left.
GuardInit ==
  /\ isUnlocked = FALSE /\ isLoading = TRUE /\ keyInput = <<>> /\ error = ""
  /\ slot \in {NoKey} \cup GuardKeys
  /\ now \in 0..MaxNow
  /\ gpc = "mount"
  /\ awaitKey = NoKey
  /\ last = NoOp

\* handleLogout with setIsUnlocked(false) left out.
handleLogout_staysUnlocked ==
  /\ slot' = NoKey
  /\ isUnlocked' = isUnlocked
  /\ keyInput' = <<>>
  /\ error' = ""

\* handleLogout with setKeyInput('') left out.
handleLogout_keepsInput ==
  /\ slot' = NoKey
  /\ isUnlocked' = FALSE
  /\ keyInput' = keyInput
  /\ error' = ""

\* handleLogout: both items removed, isUnlocked false, input and error emptied
\* ('my_app_license' is never written, so only one item is kept as state).
handleLogout ==
  /\ slot' = NoKey
  /\ isUnlocked' = FALSE
  /\ keyInput' = <<>>
  /\ error' = ""

\* checkSavedKey up to its await: no stored key ends the loading phase at once.
CheckSavedKeyStart ==
  /\ UNCHANGED notGuard
  /\ gpc = "mount"
  /\ IF slot # NoKey
     THEN /\ gpc' = "checkAwait"
          /\ awaitKey' = slot
          /\ last' = [NoOp EXCEPT !.op = "checkSavedKey", !.key = slot,
                        !.online = "pending", !.slotBefore = slot, !.at = now]
          /\ UNCHANGED isLoading
     ELSE /\ gpc' = "idle"
          /\ isLoading' = FALSE
          /\ last' = [NoOp EXCEPT !.op = "checkSavedKey", !.at = now]
          /\ UNCHANGED awaitKey
  /\ UNCHANGED <<isUnlocked, keyInput, error, slot, now>>

\* checkSavedKey from the answer of verifyKeyOnline(savedKey) to its end.
CheckSavedKeyResume ==
  /\ UNCHANGED notGuard
  /\ gpc = "checkAwait"
  /\ \E t \in Transport :
       \E onlineRes \in {verifyKeyOnline(t)} :
       \E out \in {checkSavedKeyOutcome(awaitKey, onlineRes, now)} :
          /\ isUnlocked' = (IF out.unlock THEN TRUE ELSE isUnlocked)
          /\ slot' = (IF out.remove THEN NoKey ELSE slot)
          /\ last' = [last EXCEPT !.transport = t,
                                  !.online = onlineRes.status,
                                  !.offline = out.offline, !.at = now]
  /\ isLoading' = FALSE
  /\ gpc' = "idle"
  /\ awaitKey' = NoKey
  /\ UNCHANGED <<keyInput, error, now>>

\* The key field's onChange while the lock screen shows.
SetKeyInput ==
  /\ UNCHANGED notGuard
  /\ gpc = "idle" /\ ~isLoading /\ ~isUnlocked
  /\ \E v \in TypedInputs : keyInput' = toUpperCase(v)
  /\ keyInput' # keyInput
  /\ UNCHANGED <<isUnlocked, isLoading, error, slot, now, gpc, awaitKey, last>>

\* handleUnlock up to its await: an empty inputClean returns at once.
HandleUnlockStart ==
  /\ UNCHANGED notGuard
  /\ gpc = "idle" /\ ~isLoading /\ ~isUnlocked
  /\ LET key == inputClean(keyInput)
     IN IF key = <<>>
        THEN /\ last' = [NoOp EXCEPT !.op = "submitKey", !.input = keyInput,
                           !.slotBefore = slot, !.errorBefore = error,
                           !.at = now]
             /\ UNCHANGED <<isLoading, error, gpc, awaitKey>>
        ELSE /\ isLoading' = TRUE
             /\ error' = ""
             /\ gpc' = "unlockAwait"
             /\ awaitKey' = key
             /\ last' = [NoOp EXCEPT !.op = "submitKey", !.key = key,
                           !.input = keyInput, !.online = "pending",
                           !.slotBefore = slot, !.errorBefore = error,
                           !.at = now]
  /\ UNCHANGED <<isUnlocked, keyInput, slot, now>>

\* handleUnlock from the answer of verifyKeyOnline(inputClean) to its end.
HandleUnlockResume ==
  /\ UNCHANGED notGuard
  /\ gpc = "unlockAwait"
  /\ \E t \in Transport :
       \E onlineRes \in {verifyKeyOnline(t)} :
       \E out \in {handleUnlockOutcome(awaitKey, onlineRes, now)} :
          /\ isUnlocked' = (IF out.unlock THEN TRUE ELSE isUnlocked)
          /\ slot' = (IF out.unlock THEN awaitKey ELSE slot)
          /\ error' = (IF out.unlock THEN error ELSE out.error)
          /\ last' = [last EXCEPT !.transport = t,
                                  !.online = onlineRes.status,
                                  !.offline = out.offline, !.at = now]
  /\ isLoading' = FALSE
  /\ gpc' = "idle"
  /\ awaitKey' = NoKey
  /\ UNCHANGED <<keyInput, now>>

\* A generateScript call that has been made and has not ended.
InFlight == spc \in {"request", "retryWait", "coolDown"}

\* unmountChildren aborting the call in flight.
unmountChildren_abortsCall ==
  /\ spc' = (IF InFlight THEN "failed" ELSE spc)
  /\ UNCHANGED <<promptCount, targetCount, batch, allRawScenes, storySummary,
                 previousContext, attempt, caught, waitTime, progress, prompt,
                 outcome, asked, hist, tally>>

\* isUnlocked turns false: AuthGuard renders the lock screen instead of its
\* children. Nothing of a generateScript call is touched.
unmountChildren == UNCHANGED genVars

\* checkExpiryNow, one tick of the 60 s interval that runs while isUnlocked.
CheckExpiryNow ==
  /\ UNCHANGED <<keyVars, extVars, cleanVars>>
  /\ gpc = "idle" /\ isUnlocked
  /\ IF slot # NoKey /\ sweepExpired(slot, now)
     THEN /\ handleLogout
          /\ unmountChildren
          /\ last' = [NoOp EXCEPT !.op = "sweep", !.key = slot,
                        !.input = keyInput, !.slotBefore = slot,
                        !.call = spc, !.alert = TRUE, !.at = now]
     ELSE /\ last' = [NoOp EXCEPT !.op = "sweep", !.key = slot,
                        !.slotBefore = slot, !.at = now]
          /\ UNCHANGED <<slot, isUnlocked, keyInput, error>>
          /\ UNCHANGED genVars
  /\ UNCHANGED <<isLoading, now, gpc, awaitKey>>

\* The "Doi Key" button, shown while unlocked.
ClickLogout ==
  /\ UNCHANGED <<keyVars, extVars, cleanVars>>
  /\ gpc = "idle" /\ isUnlocked /\ ~isLoading
  /\ handleLogout
  /\ unmountChildren
  /\ last' = [NoOp EXCEPT !.op = "logout", !.key = slot, !.input = keyInput,
                !.slotBefore = slot, !.call = spc, !.at = now]
  /\ UNCHANGED <<isLoading, now, gpc, awaitKey>>

\* Time passes.
Tick ==
  /\ UNCHANGED notGuard
  /\ gpc # "off"
  /\ now < MaxNow
  /\ now' = now + 1
  /\ UNCHANGED <<isUnlocked, isLoading, keyInput, error, slot, gpc, awaitKey, last>>

\* The page is loaded again: the component state starts over, the stored
\* item stays.
Reload ==
  /\ UNCHANGED notGuard
  /\ gpc \in {"idle", "checkAwait", "unlockAwait"}
  /\ isUnlocked' = FALSE /\ isLoading' = TRUE /\ keyInput' = <<>> /\ error' = ""
  /\ gpc' = "mount"
  /\ awaitKey' = NoKey
  /\ last' = [NoOp EXCEPT !.op = "reload", !.slotBefore = slot, !.at = now]
  /\ UNCHANGED <<slot, now>>

GuardNext ==
  \/ CheckSavedKeyStart
  \/ CheckSavedKeyResume
  \/ SetKeyInput
  \/ HandleUnlockStart
  \/ HandleUnlockResume
  \/ CheckExpiryNow
  \/ ClickLogout
  \/ Tick
  \/ Reload

\* The key checks are not part of the behaviour.
KeyOff ==
  /\ kKey = <<>> /\ kNow = 0 /\ kpc = "off" /\ kRes = NoResult /\ kMut = FALSE

InitGuard == GuardInit /\ KeyOff /\ GenOff /\ ExtOff /\ CleanOff

SpecGuard == InitGuard /\ [][GuardNext]_vars

\* The guard when its asynchronous steps do run: the effect that calls
\* checkSavedKey runs after the mount, and a verifyKeyOnline call that is
\* awaited answers (its fetch is aborted after 8 s, and every path of the
\* function returns a status).
SpecGuardLive ==
  /\ SpecGuard
  /\ WF_vars(CheckSavedKeyStart)
  /\ WF_vars(CheckSavedKeyResume)
  /\ WF_vars(HandleUnlockResume)

(***************************************************************************)
(* Claims about AuthGuard (checked under SpecGuard).                        *)
(***************************************************************************)
Indeterminate == {"ERROR", "NETWORK_ERROR"}

\* The guard shows the lock screen.
Locked == ~isUnlocked /\ ~isLoading

\* key is 'SK-LIFETIME-<type>-<signature>' with the signature of its fields.
SignedLifetime(key) ==
  LET parts == split(key)
  IN /\ Len(parts) = 4
     /\ parts[1] = <<83, 75>>
     /\ parts[2] = LIFETIME
     /\ parts[4] = expectedSig(parts[2], parts[3])

\* key's expiry field is not 'LIFETIME', decodes, and is before t.
ElapsedNotUnlimited(key, t) ==
  /\ Len(split(key)) >= 2
  /\ split(key)[2] # LIFETIME
  /\ ~parseInt16(split(key)[2]).nan
  /\ parseInt16(split(key)[2]).val < t

\* C3: when checkSavedKey finds a persisted key and online verification
\* answers INVALID, the persisted key is cleared, the guard ends Locked and
\* offline verification is not run for that key.
C3_SavedKeyInvalidOnline ==
  (last.op = "checkSavedKey" /\ last.online = "INVALID") =>
    (slot = NoKey /\ Locked /\ last.offline = "notrun")

C3_Witness ==
  /\ last.op = "checkSavedKey" /\ last.online = "INVALID"
  /\ verifyKeyOffline(last.key, last.at).valid

\* C4: in checkSavedKey and in submitKey offline verification is consulted
\* only when the online result is NETWORK_ERROR or ERROR; after an online
\* INVALID the guard is not Unlocked and the key was not persisted.
C4_OfflineOnlyWhenIndeterminate ==
  (last.op \in {"checkSavedKey", "submitKey"}) =>
    /\ (last.offline # "notrun" => last.online \in Indeterminate)
    /\ (last.online = "INVALID" =>
          /\ ~isUnlocked
          /\ slot = (IF last.op = "submitKey" THEN last.slotBefore ELSE NoKey))

C4_Witness ==
  /\ last.op = "submitKey" /\ last.online = "INVALID"
  /\ verifyKeyOffline(last.key, last.at).valid
  /\ last.slotBefore # last.key

\* Whether a submitted key is accepted: online VALID, or online indeterminate
\* and the key valid offline at that time.
Accepted(key) ==
  \/ last.online = "VALID"
  \/ last.online \in Indeterminate /\ verifyKeyOffline(key, last.at).valid

\* C5: submitKey normalizes the input (trim, uppercase); if online
\* verification is VALID, or indeterminate with the normalized key valid
\* offline, the normalized key is persisted and the guard is Unlocked; in
\* every other case the guard stays Locked and an error message is set.
C5_SubmitOutcome ==
  (last.op = "submitKey" /\ last.online # "pending") =>
    LET key == toUpperCase(trim(last.input))
    IN IF key # <<>> /\ Accepted(key)
       THEN slot = key /\ isUnlocked
       ELSE Locked /\ error # ""

\* C5 as amended: the same for an input that is not empty once normalized;
\* an input that is empty once normalized makes submitKey return at once,
\* without verification, leaving the guard Locked and the error message
\* and the persisted key as they were.
C5_SubmitOutcomeNonEmpty ==
  (last.op = "submitKey" /\ last.online # "pending") =>
    LET key == toUpperCase(trim(last.input))
    IN IF key = <<>>
       THEN /\ last.online = "none" /\ last.offline = "notrun"
            /\ Locked /\ error = last.errorBefore /\ slot = last.slotBefore
       ELSE IF Accepted(key)
       THEN slot = key /\ isUnlocked /\ ~isLoading
       ELSE Locked /\ error # ""

C5_Witness ==
  /\ last.op = "submitKey" /\ last.online \in Indeterminate
  /\ last.input # toUpperCase(trim(last.input))
  /\ slot = toUpperCase(trim(last.input))
  /\ last.slotBefore # slot
  /\ isUnlocked

\* C8: a correctly signed key whose expiry field is LIFETIME validates
\* offline at every value of the current time, and a sweep tick of a guard
\* holding such a key does not log out.
C8_LifetimeNeverExpires ==
  /\ \A k \in GuardKeys : SignedLifetime(k) => verifyKeyOffline(k, now).valid
  /\ (last.offline # "notrun" /\ SignedLifetime(last.key))
       => last.offline = "valid"
  /\ (last.op = "sweep" /\ SignedLifetime(last.slotBefore))
       => (~last.alert /\ isUnlocked /\ slot = last.slotBefore)

C8_Witness ==
  /\ last.op = "sweep" /\ SignedLifetime(last.slotBefore)
  /\ last.at = MaxNow /\ isUnlocked

\* C10: a sweep tick of an Unlocked guard whose persisted key has an expiry
\* field other than LIFETIME with a decoded expiry that has elapsed forces
\* logout: the notice is shown, the persisted key is cleared and the guard
\* is Locked.
C10_SweepLogsOutExpired ==
  (last.op = "sweep" /\ ElapsedNotUnlimited(last.slotBefore, last.at)) =>
    (last.alert /\ slot = NoKey /\ Locked)

C10_Witness ==
  /\ last.op = "sweep" /\ ElapsedNotUnlimited(last.slotBefore, last.at)
  /\ slot = NoKey

C11_LogoutLocks ==
  [][(ClickLogout \/ (CheckExpiryNow /\ last'.alert)) =>
       (slot' = NoKey /\ keyInput' = <<>> /\ error' = "" /\ Locked')]_vars

C11_Witness ==
  /\ last.op = "logout" /\ last.slotBefore # NoKey /\ last.input # <<>>
  /\ slot = NoKey /\ keyInput = <<>> /\ Locked


\* C24: the guard starts in Loading; checkSavedKey with no persisted key ends
\* Locked without a verification call; with a persisted key, once online
\* verification has answered, it leaves Loading Unlocked when the answer is
\* VALID, Unlocked exactly when offline validation succeeds when the answer
\* is indeterminate, and Locked otherwise; and a checkSavedKey or a submitKey
\* that awaits verification eventually ends (or the page is loaded again).
C24_GuardLeavesLoading ==
  /\ [](gpc \in {"mount", "checkAwait"} => isLoading /\ ~isUnlocked)
  /\ [](gpc = "unlockAwait" => isLoading)
  /\ [][(gpc = "mount" /\ gpc' = "idle") =>
          (slot = NoKey /\ last'.transport = "none" /\ Locked')]_vars
  /\ [][(gpc = "checkAwait" /\ gpc' = "idle") =>
          /\ ~isLoading'
          /\ last'.transport \in Transport
          /\ isUnlocked' =
               (\/ last'.online = "VALID"
                \/ /\ last'.online \in Indeterminate
                   /\ verifyKeyOffline(awaitKey, now).valid)]_vars
  /\ (gpc = "checkAwait") ~> ((gpc = "idle" /\ ~isLoading) \/ gpc = "mount")
  /\ (gpc = "unlockAwait") ~> ((gpc = "idle" /\ ~isLoading) \/ gpc = "mount")

\* checkSavedKey has ended Locked on an indeterminate answer for a stored key
\* that offline validation rejects.
C24_Witness ==
  /\ last.op = "checkSavedKey" /\ last.key # NoKey
  /\ last.online \in Indeterminate /\ last.offline = "invalid"
  /\ gpc = "idle" /\ Locked /\ slot = last.key

\* C25: in every reachable state of the guard, whatever the sequence of
\* checkSavedKey, submitKey, sweep ticks and logouts, an unlocked guard has a
\* key in the persisted slot.
C25_UnlockedHasKey == isUnlocked => slot # NoKey

\* A submitKey made with an empty slot has unlocked the guard and stored its
\* key.
C25_Witness ==
  /\ last.op = "submitKey" /\ last.slotBefore = NoKey
  /\ gpc = "idle" /\ isUnlocked /\ ~isLoading /\ slot = last.key /\ slot # NoKey

\* key's expiry field is neither 'LIFETIME' nor text parseInt(..., 16) reads
\* a number from.
UndecodableExpiry(key) ==
  /\ Len(split(key)) >= 2
  /\ split(key)[2] # LIFETIME
  /\ parseInt16(split(key)[2]).nan

\* C29: a key whose expiry field is neither the unlimited literal nor a
\* decodable hexadecimal timestamp is never accepted: offline validation does
\* not find it valid, even correctly signed, and an expiry sweep over such a
\* key does not leave the guard Unlocked.
C29_UndecodableExpiryRejected ==
  /\ (last.op \in {"checkSavedKey", "submitKey"} /\ last.offline = "valid") =>
       ~UndecodableExpiry(last.key)
  /\ (last.op = "sweep" /\ UndecodableExpiry(last.key)) => ~isUnlocked

\* C30: a submitKey that does not unlock (the input is empty after trimming,
\* the online answer is INVALID, or it is indeterminate and offline
\* validation fails) leaves the persisted slot as it was and the guard
\* Locked; checkSavedKey never writes a key: it leaves the slot as it was or,
\* on an online INVALID only, clears it.
C30_SlotFrame ==
  [][/\ (gpc = "idle" /\ gpc' = "idle" /\ last' # last
           /\ last'.op = "submitKey") =>
          (slot' = slot /\ Locked')
     /\ (gpc = "idle" /\ gpc' = "unlockAwait") => slot' = slot
     /\ (gpc = "unlockAwait" /\ gpc' = "idle" /\ ~isUnlocked') =>
          /\ slot' = slot /\ Locked'
          /\ \/ last'.online = "INVALID"
             \/ last'.online \in Indeterminate /\ last'.offline = "invalid"
     /\ (gpc = "mount" /\ gpc' \in {"idle", "checkAwait"}) => slot' = slot
     /\ (gpc = "checkAwait" /\ gpc' = "idle") =>
          \/ slot' = slot
          \/ slot' = NoKey /\ last'.online = "INVALID"]_vars

\* A submitKey answered INVALID has left the key an earlier session stored,
\* and the guard Locked.
C30_Witness ==
  /\ last.op = "submitKey" /\ last.online = "INVALID"
  /\ last.slotBefore # NoKey /\ last.key # last.slotBefore
  /\ slot = last.slotBefore /\ gpc = "idle" /\ Locked

(***************************************************************************)
(* The script generator: mapJsonToScenes, generateBatchWithRetry,           *)
(* generateScript.                                                          *)
(***************************************************************************)
BATCH_SIZE == 10
MAX_RETRIES == 10

\* The largest options.promptCount explored.
MaxCount == 21

Min(a, b) == IF a <= b THEN a ELSE b

\* Math.ceil(n / d) for n >= 0, d > 0.
CeilDiv(n, d) == (n + d - 1) \div d

\* A raw scene item of a response, reduced to its scene number (0: absent).
RawScene(n) == [scene |-> n]

\* The scene numbers a response reports: the ones asked for, the position in
\* the response, the ones asked for shifted by one, or none at all.
Numberings == {"asked", "relative", "shifted", "absent"}
Reported(numbering, i, startIndex) ==
  CASE numbering = "asked" -> startIndex + i - 1
    [] numbering = "relative" -> i
    [] numbering = "shifted" -> startIndex + i
    [] OTHER -> 0

\* What the last scene of a response says of where the story stands: its
\* environment.location and its first character's actions.body_movement
\* ("": absent).
EndStates == {[location |-> "", body_movement |-> ""],
              [location |-> "L", body_movement |-> "M"]}

\* story_summary of a response ("": absent).
Summaries == {"", "S"}

\* The numbers of scenes a response to a request for count scenes may carry:
\* none, one fewer, as many, one more.
ResponseLengths(count) == {n \in {0, count - 1, count, count + 1} : n >= 0}

\* The parsed responses to a request for count scenes from startIndex:
\* json.scenes || [], json.story_summary || "", and the last scene's ending.
Responses(startIndex, count) ==
  { [scenes |-> [i \in 1..n |-> RawScene(Reported(numbering, i, startIndex))],
     summary |-> sm, ending |-> e] :
      n \in ResponseLengths(count),
      numbering \in Numberings, e \in EndStates, sm \in Summaries }

\* mapJsonToScenes: each item's scene number, item.scene || index + 1, goes
\* to scene_number, to the head of script_description ("Canh n") and to the
\* scene field of the JSON prompt (veo_prompt).
mapJsonToScenes(rawScenes) ==
  [i \in 1..Len(rawScenes) |->
     LET n == IF rawScenes[i].scene # 0 THEN rawScenes[i].scene ELSE i
     IN [scene_number |-> n, description_scene |-> n, prompt_scene |-> n]]

\* correctedScenes with the scene numbers left as the model reported them.
correctedScenes_asReported(scenes, startIndex) == scenes

\* generateScript's correction of a batch: scene = startIndex + idx.
correctedScenes(scenes, startIndex) ==
  [i \in 1..Len(scenes) |-> [scenes[i] EXCEPT !.scene = startIndex + (i - 1)]]

\* The context for the next batch, from the last corrected scene.
contextOf(lastScene, ending) ==
  [scene |-> lastScene.scene, location |-> ending.location,
   action |-> ending.body_movement]

\* if (batch === 0) storySummary = result.summary
summaryAfter_always(b, current, result) == result.summary

summaryAfter(b, current, result) ==
  IF b = 0 THEN result.summary ELSE current

\* generateBatch's contextInstructions: the first batch (startIndex === 1) is
\* told to start the story; any other batch is told to continue it and is
\* given storySummary and previousContext.
contextInstructions(startIndex, context, summary) ==
  IF startIndex = 1
  THEN [task |-> "start", summary |-> <<>>, context |-> <<>>]
  ELSE [task |-> "continue", summary |-> <<summary>>, context |-> <<context>>]

\* const startIndex = (batch * BATCH_SIZE) + 1
startIndexOf(b) == (b * BATCH_SIZE) + 1

\* const countForThisBatch = Math.min(BATCH_SIZE, targetCount - allRawScenes.length)
countForThisBatch(target, scenes) == Min(BATCH_SIZE, target - Len(scenes))

\* const totalBatches = Math.ceil(targetCount / BATCH_SIZE)
totalBatches(target) == CeilDiv(target, BATCH_SIZE)

\* The errors a generateBatch call can throw, by what errorString contains:
\* the markers that includes() finds, and the seconds of a 'retry in Ns'
\* the regular expression finds, in tenths (-1: none). A marker is kept in
\* the letter case the text has it in.
ServiceErrors ==
  { [markers |-> {"quota"}, retryIn |-> -1],
    [markers |-> {"503"}, retryIn |-> -1],
    [markers |-> {"quota", "503"}, retryIn |-> -1],
    [markers |-> {"429"}, retryIn |-> 120],
    [markers |-> {"overloaded"}, retryIn |-> 15],
    [markers |-> {}, retryIn |-> -1],
    [markers |-> {}, retryIn |-> 120],
    [markers |-> {"Quota"}, retryIn |-> -1] }

isQuota(err) == err.markers \cap {"429", "quota", "RESOURCE_EXHAUSTED"} # {}
isOverloaded(err) == err.markers \cap {"503", "overloaded"} # {}

\* 5000 * Math.pow(2, attempt - 1)
RECURSIVE Pow2(_)
Pow2(n) == IF n <= 0 THEN 1 ELSE 2 * Pow2(n - 1)

\* retryWait with the backoff rules tried before the advised wait.
retryWait_backoffFirst(err, att) ==
  IF isQuota(err)
  THEN [ms |-> 20000 * att, progress |-> "quota"]
  ELSE IF isOverloaded(err)
  THEN [ms |-> 5000 * Pow2(att - 1), progress |-> "overloaded"]
  ELSE [ms |-> CeilDiv(err.retryIn, 10) * 1000 + 3000, progress |-> "quotaAdvised"]

\* retryWait with the overload wait growing by 5 s per attempt.
retryWait_overloadLinear(err, att) ==
  IF err.retryIn >= 0
  THEN [ms |-> CeilDiv(err.retryIn, 10) * 1000 + 3000, progress |-> "quotaAdvised"]
  ELSE IF isQuota(err)
  THEN [ms |-> 20000 * att, progress |-> "quota"]
  ELSE [ms |-> 5000 * att, progress |-> "overloaded"]

\* The wait before the next attempt, in ms, and the message that announces it.
retryWait(err, att) ==
  IF err.retryIn >= 0
  THEN [ms |-> CeilDiv(err.retryIn, 10) * 1000 + 3000, progress |-> "quotaAdvised"]
  ELSE IF isQuota(err)
  THEN [ms |-> 20000 * att, progress |-> "quota"]
  ELSE [ms |-> 5000 * Pow2(att - 1), progress |-> "overloaded"]

\* isRetryable without the classification.
isRetryable_always(err, att) == att < MAX_RETRIES

\* isRetryable without the ceiling on the attempts.
isRetryable_noCeiling(err, att) == isQuota(err) \/ isOverloaded(err)

\* if ((isQuota || isOverloaded) && attempt < MAX_RETRIES)
isRetryable(err, att) == (isQuota(err) \/ isOverloaded(err)) /\ att < MAX_RETRIES

\* The batch named by generateScript's error, counted from 0.
failedBatchName_zeroBased(b) == b

\* The batch named by generateScript's error: batch + 1.
failedBatchName(b) == b + 1

\* Before the call: options.promptCount is drawn (0 stands for a count that
\* is not a positive number).
GenInit ==
  /\ spc = "idle" /\ promptCount \in 0..MaxCount /\ targetCount = 0 /\ batch = 0
  /\ allRawScenes = <<>> /\ storySummary = "" /\ previousContext = NoContext
  /\ attempt = 0 /\ caught = <<>> /\ waitTime = 0 /\ progress = "none"
  /\ prompt = NoPrompt
  /\ outcome = NoOutcome /\ asked = <<>> /\ hist = NoHist /\ tally = NoTally

\* One more generateBatch call is made, the first of a batch or a retry.
countCall(t, first) ==
  IF ~t.on THEN t
  ELSE [t EXCEPT !.calls = @ + 1,
                 !.batchCalls = IF first THEN 1 ELSE @ + 1,
                 !.batchWaits = IF first THEN 0 ELSE @]

\* One more retry delay is awaited.
countWait(t) == IF ~t.on THEN t ELSE [t EXCEPT !.batchWaits = @ + 1]

\* The head of the loop body for batch b up to the first generateBatch call:
\* the progress message, then generateBatchWithRetry with attempt = 0, which
\* passes previousContext and storySummary on to generateBatch.
StartBatch(b, target, scenes, context, summary) ==
  /\ batch' = b
  /\ prompt' = contextInstructions(startIndexOf(b), context, summary)
  /\ tally' = countCall(tally, TRUE)
  /\ asked' = Append(asked, [startIndex |-> startIndexOf(b),
                             count |-> countForThisBatch(target, scenes)])
  /\ progress' = "batch"
  /\ attempt' = 0
  /\ caught' = <<>>
  /\ waitTime' = 0
  /\ spc' = "request"

\* The loop goes on with batch b, or ends: return {story_summary, scenes}.
NextBatchOrReturn(b, target, scenes, context, summary) ==
  IF b < totalBatches(target)
  THEN StartBatch(b, target, scenes, context, summary) /\ UNCHANGED outcome
  ELSE /\ spc' = "done"
       /\ prompt' = NoPrompt
       /\ outcome' = [NoOutcome EXCEPT !.kind = "script",
                                       !.story_summary = summary,
                                       !.scenes = mapJsonToScenes(scenes)]
       /\ waitTime' = 0
       /\ UNCHANGED <<batch, asked, progress, attempt, caught, tally>>

\* generateScript is called: targetCount is set and batch 0 is requested.
GenerateScript ==
  /\ UNCHANGED notGen
  /\ spc = "idle"
  /\ LET target == IF promptCount <= 0 THEN 5 ELSE promptCount
     IN /\ targetCount' = target
        /\ StartBatch(0, target, <<>>, previousContext, storySummary)
  /\ UNCHANGED <<promptCount, allRawScenes, storySummary, previousContext,
                 outcome, hist>>

\* The generateBatch call in flight returns a response: generateBatchWithRetry
\* returns it, and generateScript runs to its next await or to its return.
BatchResponds ==
  /\ UNCHANGED notGen
  /\ spc = "request"
  /\ LET startIndex == startIndexOf(batch)
         count == countForThisBatch(targetCount, allRawScenes)
     IN \E result \in Responses(startIndex, count) :
          LET summary == summaryAfter(batch, storySummary, result)
              corrected == correctedScenes(result.scenes, startIndex)
              scenes == IF Len(result.scenes) > 0
                        THEN allRawScenes \o corrected ELSE allRawScenes
              context == IF Len(result.scenes) > 0
                         THEN contextOf(corrected[Len(corrected)], result.ending)
                         ELSE previousContext
          IN /\ storySummary' = summary
             /\ allRawScenes' = scenes
             /\ previousContext' = context
             /\ hist' = [hist EXCEPT
                  !.allExact = hist.allExact /\ Len(result.scenes) = count,
                  !.misreported = hist.misreported \/
                     \E i \in 1..Len(result.scenes) :
                        result.scenes[i].scene # startIndex + i - 1,
                  !.coolDowns =
                     IF Len(result.scenes) > 0
                          /\ batch < totalBatches(targetCount) - 1
                     THEN hist.coolDowns + 1 ELSE hist.coolDowns,
                  !.firstSummary =
                     IF batch = 0 THEN <<result.summary>>
                     ELSE hist.firstSummary,
                  !.lastEnding =
                     IF Len(result.scenes) > 0
                     THEN <<[batch |-> batch,
                             location |-> result.ending.location,
                             body_movement |-> result.ending.body_movement]>>
                     ELSE hist.lastEnding]
             /\ IF Len(result.scenes) > 0 /\ batch < totalBatches(targetCount) - 1
                THEN /\ progress' = "coolDown"
                     /\ waitTime' = 6000
                     /\ spc' = "coolDown"
                     /\ prompt' = NoPrompt
                     /\ UNCHANGED <<batch, asked, attempt, caught, outcome,
                                    tally>>
                ELSE NextBatchOrReturn(batch + 1, targetCount, scenes, context,
                                       summary)
  /\ UNCHANGED <<promptCount, targetCount>>

\* The generateBatch call in flight throws: generateBatchWithRetry waits and
\* tries again, or throws, and then generateScript throws the batch's error.
BatchThrows ==
  /\ UNCHANGED notGen
  /\ spc = "request"
  /\ \E err \in ServiceErrors :
       LET att == attempt + 1
       IN /\ attempt' = att
          /\ IF isRetryable(err, att)
             THEN /\ caught' = <<err>>
                  /\ waitTime' = retryWait(err, att).ms
                  /\ progress' = retryWait(err, att).progress
                  /\ spc' = "retryWait"
                  /\ tally' = countWait(tally)
                  /\ UNCHANGED <<outcome, prompt>>
             ELSE /\ spc' = "failed"
                  /\ outcome' = [NoOutcome EXCEPT
                                   !.kind = "serviceError",
                                   !.batch = failedBatchName(batch),
                                   !.error = <<err>>]
                  /\ caught' = <<>>
                  /\ waitTime' = 0
                  /\ prompt' = NoPrompt
                  /\ UNCHANGED <<progress, tally>>
  /\ hist' = [hist EXCEPT !.anyFailure = TRUE]
  /\ UNCHANGED <<promptCount, targetCount, batch, allRawScenes, storySummary,
                 previousContext, asked>>

\* The retry delay elapses: continue, and the loop test lets the next
\* attempt's generateBatch call be made or ends the loop on the final throw.
RetryWaitElapses ==
  /\ UNCHANGED notGen
  /\ spc = "retryWait"
  /\ caught' = <<>>
  /\ waitTime' = 0
  /\ IF attempt < MAX_RETRIES
     THEN /\ spc' = "request"
          /\ tally' = countCall(tally, FALSE)
          /\ UNCHANGED <<outcome, prompt>>
     ELSE /\ spc' = "failed"
          /\ prompt' = NoPrompt
          /\ UNCHANGED tally
          /\ outcome' = [NoOutcome EXCEPT !.kind = "terminalError",
                                          !.batch = failedBatchName(batch)]
  /\ UNCHANGED <<promptCount, targetCount, batch, allRawScenes, storySummary,
                 previousContext, attempt, progress, asked, hist>>

\* The 6 s delay between batches elapses: the next batch is started.
CoolDownElapses ==
  /\ UNCHANGED notGen
  /\ spc = "coolDown"
  /\ NextBatchOrReturn(batch + 1, targetCount, allRawScenes, previousContext,
                       storySummary)
  /\ UNCHANGED <<promptCount, targetCount, allRawScenes, storySummary,
                 previousContext, hist>>

GenNext ==
  \/ GenerateScript
  \/ BatchResponds
  \/ BatchThrows
  \/ RetryWaitElapses
  \/ CoolDownElapses

InitGen == GenInit /\ KeyOff /\ GuardOff /\ ExtOff /\ CleanOff

SpecGen == InitGen /\ [][GenNext]_vars

\* The scene counts of the calls whose service calls are counted: one batch,
\* two batches.
LiveCounts == {1, BATCH_SIZE + 1}

\* Before such a call: as GenInit, with the counting on.
GenInitCounted ==
  /\ spc = "idle" /\ promptCount \in LiveCounts /\ targetCount = 0 /\ batch = 0
  /\ allRawScenes = <<>> /\ storySummary = "" /\ previousContext = NoContext
  /\ attempt = 0 /\ caught = <<>> /\ waitTime = 0 /\ progress = "none"
  /\ prompt = NoPrompt
  /\ outcome = NoOutcome /\ asked = <<>> /\ hist = NoHist
  /\ tally = [NoTally EXCEPT !.on = TRUE]

InitGenLive == GenInitCounted /\ KeyOff /\ GuardOff /\ ExtOff /\ CleanOff

\* generateScript when every generateBatch call returns or throws and every
\* delay(ms) elapses.
SpecGenLive ==
  /\ InitGenLive /\ [][GenNext]_vars
  /\ WF_vars(BatchResponds \/ BatchThrows)
  /\ WF_vars(RetryWaitElapses)
  /\ WF_vars(CoolDownElapses)

(***************************************************************************)
(* Claims about generateScript (checked under SpecGen).                     *)
(***************************************************************************)

\* C1: for every promptCount N >= 1, a call in which every batch succeeds
\* with a response carrying exactly the number of scenes requested returns
\* exactly N scenes numbered 1, 2, ..., N in order, whatever scene numbers
\* the responses reported.
C1_ExactResponsesNumbered ==
  (spc = "done" /\ promptCount >= 1 /\ hist.allExact) =>
    /\ outcome.kind = "script"
    /\ Len(outcome.scenes) = promptCount
    /\ \A i \in 1..Len(outcome.scenes) : outcome.scenes[i].scene_number = i

C1_Witness ==
  /\ spc = "done" /\ promptCount = MaxCount /\ hist.allExact
  /\ hist.misreported /\ hist.anyFailure
  /\ Len(outcome.scenes) = MaxCount

\* C2: with batch size 10, a call for promptCount N in which no request
\* fails issues exactly ceil(N/10) batch requests, and the requested sizes
\* are 10, ..., 10 followed by the remainder.
C2_BatchSizes ==
  (~hist.anyFailure /\ spc # "idle") =>
    /\ spc = "done" => Len(asked) = CeilDiv(targetCount, 10)
    /\ \A i \in 1..Len(asked) :
         asked[i].count = Min(10, targetCount - 10 * (i - 1))


\* An error that is quota-style or overload-style.
Classified(err) == isQuota(err) \/ isOverloaded(err)

\* The least whole number of seconds that is at least n tenths of a second.
CeilSeconds(tenths) ==
  CHOOSE c \in 0..(tenths + 1) : c * 10 >= tenths /\ (c - 1) * 10 < tenths

\* C12: when a classified failure's error text carries 'retry in N s', the
\* wait before the next attempt is ceil(N) + 3 seconds (15 s for 12 s),
\* whatever the quota and overload backoff rules would give.
C12_AdvisedWait ==
  (spc = "retryWait" /\ caught[1].retryIn >= 0) =>
    /\ Classified(caught[1])
    /\ waitTime = (CeilSeconds(caught[1].retryIn) + 3) * 1000
    /\ caught[1].retryIn = 120 => waitTime = 15000

C12_Witness ==
  /\ spc = "retryWait" /\ attempt = 3 /\ waitTime = 15000
  /\ caught[1].retryIn = 120 /\ isQuota(caught[1])

\* C13: after classified failures on 10 consecutive attempts the retry
\* scheduler raises its terminal error, not the service's last error, and
\* makes no 11th attempt.
C13_TerminalErrorAfterCeiling ==
  /\ attempt <= MAX_RETRIES
  /\ (spc = "failed" /\ attempt = MAX_RETRIES) =>
       \/ outcome.kind = "terminalError"
       \/ outcome.error # <<>> /\ ~Classified(outcome.error[1])

\* The error thrown by the generateBatch call of the step.
Thrown == IF caught' # <<>> THEN caught' ELSE outcome'.error

\* C14: a failure that is neither quota-style nor overload-style goes to the
\* caller at once, with no wait, no progress message and no further attempt;
\* a success on any attempt returns at once, with no retry wait.
C14_UnclassifiedPropagates ==
  [][/\ (spc = "request" /\ attempt' = attempt + 1 /\ ~Classified(Thrown[1])) =>
          /\ spc' = "failed" /\ outcome'.error = Thrown
          /\ waitTime' = 0 /\ progress' = progress /\ asked' = asked
     /\ (spc = "request" /\ attempt' # attempt + 1) =>
          /\ spc' \in {"coolDown", "request", "done"}
          /\ waitTime' = (IF spc' = "coolDown" THEN 6000 ELSE 0)
          /\ progress' \in {"coolDown", "batch", progress}
     /\ spc = "failed" => UNCHANGED genVars]_vars

C14_Witness ==
  /\ spc = "failed" /\ attempt = 3 /\ progress = "overloaded"
  /\ outcome.error # <<>> /\ ~Classified(outcome.error[1])
  /\ outcome.error[1].retryIn >= 0

\* C15: when batch k fails for good, the call fails with one error naming
\* batch k (counted from 1), no request is made for a later batch and no
\* script, not even a partial one, is returned.
C15_FailureNamesBatch ==
  /\ [](spc = "failed" =>
          /\ outcome.kind \in {"serviceError", "terminalError"}
          /\ outcome.batch = Len(asked)
          /\ outcome.scenes = <<>> /\ outcome.story_summary = "")
  /\ [][spc = "failed" => UNCHANGED genVars]_vars

C15_Witness ==
  /\ spc = "failed" /\ outcome.batch = 2 /\ promptCount = MaxCount
  /\ Len(allRawScenes) > 0 /\ storySummary # ""
  /\ attempt = MAX_RETRIES

\* C20: for a classified failure without an advised wait, the wait is the
\* attempt number times 20 s when the error is quota-style and 5 s times
\* 2^(attempt number - 1) when it is overload-style only; the attempt number
\* counts the failed attempts of the batch so far, whatever their class.
C20_BackoffTable ==
  (spc = "retryWait" /\ caught[1].retryIn < 0) =>
    /\ attempt \in 1..(MAX_RETRIES - 1)
    /\ isQuota(caught[1]) => waitTime = attempt * 20 * 1000
    /\ (isOverloaded(caught[1]) /\ ~isQuota(caught[1])) =>
         waitTime = CASE attempt = 1 -> 5000 [] attempt = 2 -> 10000
                      [] attempt = 3 -> 20000 [] attempt = 4 -> 40000
                      [] attempt = 5 -> 80000 [] attempt = 6 -> 160000
                      [] attempt = 7 -> 320000 [] attempt = 8 -> 640000
                      [] OTHER -> 1280000

C20_Witness ==
  /\ spc = "retryWait" /\ attempt = 3 /\ waitTime = 20000
  /\ isOverloaded(caught[1]) /\ ~isQuota(caught[1]) /\ batch = 1

\* A marker in lower case.
LowerCaseMarker(m) ==
  CASE m = "Quota" -> "quota"
    [] m = "Overloaded" -> "overloaded"
    [] m = "RESOURCE_EXHAUSTED" -> "resource_exhausted"
    [] OTHER -> m

\* C21: retry classification ignores letter case: an error whose text has a
\* quota-style or overload-style marker in any case ('Quota', 'Overloaded')
\* is classified and retried like the lower-case form, so a failure before
\* the retry ceiling is never the failure of such an error.
C21_ClassificationIgnoresCase ==
  (spc = "failed" /\ outcome.error # <<>> /\ attempt < MAX_RETRIES) =>
    {LowerCaseMarker(m) : m \in outcome.error[1].markers}
      \cap {"429", "quota", "resource_exhausted", "503", "overloaded"} = {}

\* C22: after every batch that is not the final one, whatever its response
\* contained, there is exactly one 6 s cool-down before the next batch is
\* requested, and none after the final batch: batch b is requested after b
\* cool-downs, and a call of k batches returns after k - 1 of them.
C22_CoolDownAfterEveryBatch ==
  /\ spc \in {"request", "retryWait"} => hist.coolDowns = batch
  /\ spc = "coolDown" => waitTime = 6000 /\ hist.coolDowns = batch + 1
  /\ spc = "done" => hist.coolDowns = totalBatches(targetCount) - 1

\* C23: the story summary is set only from the first batch's response and no
\* later response overwrites it; the first batch is requested with neither a
\* summary nor a continuity note; every later batch is requested with the
\* first response's summary and with a note holding the location and the
\* first character's body movement of the last scene of the most recent
\* batch that returned scenes.
C23_SummaryAndContinuity ==
  /\ storySummary = (IF hist.firstSummary = <<>> THEN ""
                     ELSE hist.firstSummary[1])
  /\ spc \in {"request", "retryWait"} =>
       IF batch = 0
       THEN prompt = [task |-> "start", summary |-> <<>>, context |-> <<>>]
       ELSE /\ prompt.task = "continue"
            /\ prompt.summary = hist.firstSummary
            /\ Len(prompt.context) = 1
            /\ hist.lastEnding # <<>> =>
                 /\ prompt.context[1].location = hist.lastEnding[1].location
                 /\ prompt.context[1].action = hist.lastEnding[1].body_movement

\* The third batch is requested after a second batch that returned no scenes:
\* its note is built from the first batch's last scene.
C23_Witness ==
  /\ spc = "request" /\ batch = 2
  /\ hist.firstSummary = <<"S">>
  /\ hist.lastEnding # <<>> /\ hist.lastEnding[1].batch = 0
  /\ prompt.summary = <<"S">> /\ prompt.context[1].location = "L"
  /\ hist.coolDowns = 1

\* C26: for every promptCount N >= 1 and every sequence of successful batch
\* responses, also responses with fewer or more scenes than requested, the
\* returned script holds exactly N scenes whose scene_number values are
\* 1, ..., N with no gap and no duplicate.
C26_ReturnsExactlyN ==
  (spc = "done" /\ promptCount >= 1) =>
    /\ Len(outcome.scenes) = promptCount
    /\ \A i \in 1..Len(outcome.scenes) : outcome.scenes[i].scene_number = i

\* C27: every batch request asks the model for at least 1 and at most
\* BATCH_SIZE scenes, whatever the earlier responses contained.
C27_RequestedCountInRange ==
  \A i \in 1..Len(asked) : asked[i].count >= 1 /\ asked[i].count <= BATCH_SIZE

\* C31: if every service call returns and every wait elapses, a
\* generateScript call that has been made ends with a script or an error; it
\* makes at most MAX_RETRIES service calls and awaits at most MAX_RETRIES - 1
\* retry delays per batch, and makes at most MAX_RETRIES * ceil(N / 10)
\* service calls in all.
C31_TerminatesWithinCallBudget ==
  /\ [](/\ tally.batchCalls <= MAX_RETRIES
        /\ tally.batchWaits <= MAX_RETRIES - 1
        /\ tally.calls <= MAX_RETRIES * totalBatches(targetCount)
        /\ spc # "idle" =>
             tally.calls <= MAX_RETRIES * CeilDiv(promptCount, BATCH_SIZE))
  /\ InFlight ~> (spc \in {"done", "failed"})

\* A call for two batches has failed at the last call its budget allows: the
\* first batch succeeded at its tenth call, the second failed ten times.
C31_Witness ==
  /\ spc = "failed" /\ batch = 1 /\ promptCount = BATCH_SIZE + 1
  /\ tally.calls = 2 * MAX_RETRIES
  /\ tally.batchCalls = MAX_RETRIES /\ tally.batchWaits = MAX_RETRIES - 1

(***************************************************************************)
(* The guard and a generateScript call together: the screen that calls      *)
(* generateScript is rendered only while the guard is unlocked.             *)
(***************************************************************************)

\* The scene count asked for when the guard runs alongside: two batches.
AppCounts == {BATCH_SIZE + 1}

\* The stored keys then: the signed keys for 'LIFETIME' and for '2'.
AppKeys == {MakeKey(LIFETIME, <<48, 49>>), MakeKey(<<50>>, <<48, 49>>)}

\* The page loads after the expiry of the second key.
AppInit ==
  /\ GuardInit /\ slot \in AppKeys /\ now = MaxNow
  /\ GenInit /\ promptCount \in AppCounts
  /\ KeyOff /\ ExtOff /\ CleanOff

\* generateScript is called from the unlocked screen.
AppGenerateScript ==
  /\ gpc = "idle" /\ isUnlocked /\ ~isLoading
  /\ GenerateScript

AppNext ==
  \/ CheckSavedKeyStart
  \/ CheckSavedKeyResume
  \/ CheckExpiryNow
  \/ ClickLogout
  \/ AppGenerateScript
  \/ BatchResponds
  \/ BatchThrows
  \/ RetryWaitElapses
  \/ CoolDownElapses

SpecApp == AppInit /\ [][AppNext]_vars

\* C18: a logout, by the expiry sweep or by the user, while a generateScript
\* call is in flight neither cancels nor alters the call: the step leaves
\* the call as it is, the call can always take its next step, and what it
\* returns is what it returns without a logout.
C18_LogoutLeavesCall ==
  /\ [][(isUnlocked /\ ~isUnlocked') => UNCHANGED genVars]_vars
  /\ [](InFlight =>
          ENABLED (BatchResponds \/ RetryWaitElapses \/ CoolDownElapses))
  /\ []((last.call \in {"request", "retryWait", "coolDown"}
           /\ spc = "done" /\ hist.allExact) =>
          /\ Len(outcome.scenes) = promptCount
          /\ \A i \in 1..Len(outcome.scenes) :
               outcome.scenes[i].scene_number = i)

C18_Witness ==
  /\ last.op = "sweep" /\ last.alert /\ last.call = "retryWait"
  /\ ~isUnlocked /\ spc = "done" /\ promptCount = 11
  /\ Len(outcome.scenes) = 11

(***************************************************************************)
(* extendScript.                                                            *)
(***************************************************************************)

\* The largest count explored.
MaxExtend == 5

\* mapped.map((s, i) => ({ ...s, scene_number: startNum + i }))
renumberFrom(mapped, startNum) ==
  [i \in 1..Len(mapped) |-> [mapped[i] EXCEPT !.scene_number = startNum + (i - 1)]]

\* Before the call: the arguments are drawn.
ExtInit ==
  /\ epc = "idle" /\ eKey \in BOOLEAN
  /\ eLast \in 1..MaxCount /\ eCount \in 0..MaxExtend
  /\ eOut = NoExtOutcome /\ eHist = NoExtHist

\* extendScript is called: createAiClient throws on an empty apiKey, else
\* the one generateContent call is made.
ExtendScript ==
  /\ UNCHANGED notExt
  /\ epc = "idle"
  /\ IF eKey
     THEN /\ epc' = "request"
          /\ eHist' = [eHist EXCEPT !.calls = eHist.calls + 1, !.asked = eCount]
          /\ UNCHANGED eOut
     ELSE /\ epc' = "failed"
          /\ eOut' = [NoExtOutcome EXCEPT !.kind = "noApiKey"]
          /\ UNCHANGED eHist
  /\ UNCHANGED <<eKey, eLast, eCount>>

\* The call returns a response that parses: the mapped scenes are renumbered
\* from lastScene.scene_number + 1 and returned.
ExtResponds ==
  /\ UNCHANGED notExt
  /\ epc = "request"
  /\ LET startNum == eLast + 1
     IN \E result \in Responses(startNum, eCount) :
          /\ eOut' = [kind |-> "scenes",
                      scenes |-> renumberFrom(mapJsonToScenes(result.scenes),
                                              startNum)]
          /\ eHist' = [eHist EXCEPT
               !.received = Len(result.scenes),
               !.misreported = \E i \in 1..Len(result.scenes) :
                                  result.scenes[i].scene # startNum + i - 1]
  /\ epc' = "done"
  /\ UNCHANGED <<eKey, eLast, eCount>>

\* The call throws, or its response has no text or does not parse: the
\* error is thrown again as 'Extension failed: ...'.
ExtThrows ==
  /\ UNCHANGED notExt
  /\ epc = "request"
  /\ epc' = "failed"
  /\ eOut' = [NoExtOutcome EXCEPT !.kind = "extensionFailed"]
  /\ UNCHANGED <<eKey, eLast, eCount, eHist>>

ExtNext ==
  \/ ExtendScript
  \/ ExtResponds
  \/ ExtThrows

InitExt == ExtInit /\ KeyOff /\ GuardOff /\ GenOff /\ CleanOff

SpecExt == InitExt /\ [][ExtNext]_vars

\* C16: extendScript makes a single request and, on success, returns exactly
\* count scenes whose scene_number values are lastScene.scene_number + 1,
\* ..., lastScene.scene_number + count, whatever numbers the response
\* reported.
C16_ExtensionCountAndNumbers ==
  /\ eHist.calls <= 1
  /\ epc = "done" =>
       /\ eHist.calls = 1
       /\ Len(eOut.scenes) = eCount
       /\ \A i \in 1..Len(eOut.scenes) : eOut.scenes[i].scene_number = eLast + i

\* C28: every scene returned by generateScript or extendScript is
\* self-consistent: its scene_number is the scene index in its JSON prompt
\* and in its description, also when the model reported other numbers.
C28_SceneSelfConsistent ==
  /\ spc = "done" =>
       \A i \in 1..Len(outcome.scenes) :
          /\ outcome.scenes[i].scene_number = outcome.scenes[i].prompt_scene
          /\ outcome.scenes[i].scene_number = outcome.scenes[i].description_scene
  /\ epc = "done" =>
       \A i \in 1..Len(eOut.scenes) :
          /\ eOut.scenes[i].scene_number = eOut.scenes[i].prompt_scene
          /\ eOut.scenes[i].scene_number = eOut.scenes[i].description_scene

(***************************************************************************)
(* cleanForJson.                                                            *)
(***************************************************************************)

\* The longest text explored.
MaxText == 4

\* 'a', space, line feed, carriage return, tab, no-break space, line separator.
TextChars == {97, 32, 10, 13, 9, 160, 8232}

Texts == UNION {[1..n -> TextChars] : n \in 0..MaxText}

\* text.replace(/(\r\n|\n|\r)/gm, " ")
replaceLineBreaks(s) ==
  LET RECURSIVE go(_)
      go(i) ==
        IF i > Len(s) THEN <<>>
        ELSE IF s[i] = 13 /\ i < Len(s) /\ s[i + 1] = 10 THEN <<32>> \o go(i + 2)
        ELSE IF s[i] \in {10, 13} THEN <<32>> \o go(i + 1)
        ELSE <<s[i]>> \o go(i + 1)
  IN go(1)

\* collapseWhiteSpace left out.
collapseWhiteSpace_identity(s) == s

\* .replace(/\s+/g, " ")
collapseWhiteSpace(s) ==
  LET RECURSIVE go(_)
      go(i) ==
        IF i > Len(s) THEN <<>>
        ELSE IF s[i] \notin WhiteSpace THEN <<s[i]>> \o go(i + 1)
        ELSE IF i > 1 /\ s[i - 1] \in WhiteSpace THEN go(i + 1)
        ELSE <<32>> \o go(i + 1)
  IN go(1)

\* cleanForJson: "" for an absent or empty text.
cleanForJson(text) ==
  IF text.absent \/ text.chars = <<>> THEN <<>>
  ELSE trim(collapseWhiteSpace(replaceLineBreaks(text.chars)))

CleanInit ==
  /\ cpc = "idle"
  /\ cText \in {NoText} \cup {[absent |-> FALSE, chars |-> t] : t \in Texts}
  /\ cOut = <<>>

\* cleanForJson(text)
CleanOnce ==
  /\ UNCHANGED notClean
  /\ cpc = "idle"
  /\ cOut' = cleanForJson(cText)
  /\ cpc' = "once"
  /\ UNCHANGED cText

\* cleanForJson applied to its own result.
CleanAgain ==
  /\ UNCHANGED notClean
  /\ cpc = "once"
  /\ cOut' = cleanForJson([absent |-> FALSE, chars |-> cOut])
  /\ cpc' = "twice"
  /\ UNCHANGED cText

CleanNext ==
  \/ CleanOnce
  \/ CleanAgain

InitClean == CleanInit /\ KeyOff /\ GuardOff /\ GenOff /\ ExtOff

SpecClean == InitClean /\ [][CleanNext]_vars

\* C17: for every text, cleanForJson returns a string with no line-break
\* character, no two consecutive spaces and no leading or trailing space,
\* and applying it to its own result gives that result again.
C17_CleanForJsonNormalForm ==
  (cpc \in {"once", "twice"}) =>
    /\ \A i \in 1..Len(cOut) : cOut[i] \notin {10, 13, 8232, 8233}
    /\ \A i \in 1..(Len(cOut) - 1) : ~(cOut[i] = 32 /\ cOut[i + 1] = 32)
    /\ cOut # <<>> => (cOut[1] # 32 /\ cOut[Len(cOut)] # 32)
    /\ cpc = "twice" => cOut = cleanForJson(cText)

C17_Witness ==
  /\ cpc = "twice"
  /\ cText = [absent |-> FALSE, chars |-> <<97, 13, 10, 97>>]
  /\ cOut = <<97, 32, 97>>

(***************************************************************************)
(* KeyCodec on its own: verifyKeyOffline applied to drawn keys and times.   *)
(***************************************************************************)
KeyInit ==
  /\ kKey \in SignedKeys \cup BadKeys
  /\ kNow \in 0..MaxNow
  /\ kpc = "input"
  /\ kRes = NoResult
  /\ kMut = FALSE
  /\ GuardOff
  /\ GenOff
  /\ ExtOff
  /\ CleanOff

\* One call of verifyKeyOffline(kKey) at Date.now() = kNow.
KVerify ==
  /\ UNCHANGED notKey
  /\ kpc = "input"
  /\ kRes' = verifyKeyOffline(kKey, kNow)
  /\ kpc' = "verified"
  /\ UNCHANGED <<kKey, kNow, kMut>>

\* A key that validated gets one character of its signature segment replaced
\* by a different character.
KMutate ==
  /\ UNCHANGED notKey
  /\ kpc = "verified" /\ kRes.valid /\ ~kMut
  /\ \E i \in 1..Len(split(kKey)[4]), c \in ReplacementChars :
       /\ split(kKey)[4][i] # c
       /\ kKey' = ReplaceSigChar(kKey, i, c)
  /\ kMut' = TRUE
  /\ kpc' = "input"
  /\ kRes' = NoResult
  /\ UNCHANGED kNow

\* Time passes; the key is read again later.
KTick ==
  /\ UNCHANGED notKey
  /\ kNow < MaxNow
  /\ kNow' = kNow + 1
  /\ kpc' = "input"
  /\ kRes' = NoResult
  /\ UNCHANGED <<kKey, kMut>>

KeyNext == KVerify \/ KMutate \/ KTick

SpecKey == KeyInit /\ [][KeyNext]_vars

(***************************************************************************)
(* Claims about KeyCodec (checked under SpecKey).                           *)
(***************************************************************************)
kParts == split(kKey)
kWellFormed == Len(kParts) = 4 /\ kParts[1] = <<83, 75>>
kSigned == kWellFormed /\ kParts[4] = expectedSig(kParts[2], kParts[3])
kExpiry == parseInt16(kParts[2])

\* C6: offline validation of a parsed key returns valid exactly when the
\* signature equals sign(expiryField, typeCode) and (the expiry field is the
\* unlimited literal or now < decoded expiry); a key read at the instant
\* now = decoded expiry is not valid.
C6_ValidIffSignedAndBeforeExpiry ==
  (kpc = "verified" /\ kWellFormed) =>
    (kRes.valid <=>
       /\ kSigned
       /\ (kParts[2] = LIFETIME \/ (~kExpiry.nan /\ kNow < kExpiry.val)))

\* C7: a key whose decoded expiry is strictly before the current time never
\* validates offline, even when its signature is correct.
C7_PastExpiryNeverValid ==
  (kpc = "verified" /\ kWellFormed /\ ~kExpiry.nan /\ kExpiry.val < kNow)
    => ~kRes.valid

C7_Witness ==
  kpc = "verified" /\ kSigned /\ ~kExpiry.nan /\ kExpiry.val < kNow /\ ~kMut

\* C9: once one character of the signature segment of a key that validated
\* offline is replaced by a different character, offline validation of the
\* changed key returns false.
C9_SignatureMutationInvalid ==
  (kMut /\ kpc = "verified") => ~kRes.valid

C9_Witness ==
  kMut /\ kpc = "verified" /\ kWellFormed /\ ~kRes.valid


====
